---- MODULE Spec2Model ----
(***************************************************************************)
(* The skyscraper dashboard of finalproject.py as a state machine.  One    *)
(* run of the script is the sequence Load, Prepare, Sidebar and then the   *)
(* steps of the page the user selected; every user interaction re-runs the *)
(* script from the top (Rerun).                                            *)
(*                                                                         *)
(* A data frame is a sequence of rows.  A row is a record                  *)
(*   [idx, name, city, height, completed, year]                            *)
(* where idx is the row label read_csv gave it (its 0-based position in    *)
(* the file), name is a sequence of one-character strings (so that lower   *)
(* and strip are computed), height is in whole metres, and year is the     *)
(* cell of the status.completed.year column written as text: "0" and       *)
(* "2000" are the integers 0 and 2000, "Unknown" is the replacement text.  *)
(***************************************************************************)
EXTENDS Integers, Sequences, FiniteSets, TLC

\* ------------------------------------------------------------------ bounds
\* Rows of a CSV file drawn from RowKinds.
MaxRows == 3
\* Rows beyond top_n's default in a CSV file drawn from TallKinds.
MaxExtra == 2
\* Slider positions above the slider's minimum.
MaxSteps == 2
\* Largest top_n the contract of get_tallest_skyscrapers is evaluated for.
MaxTopN == 7

\* ------------------------------------------------------- program constants
TopNDefault == 5
TopNSecond == 20
SliderMin == 0
SliderMax == 2000
SliderStep == 100

ALL_CITIES == "ALL CITIES"
Unknown == "Unknown"
\* A missing cell of the CSV file (pandas NaN).
NaN == "<NaN>"
\* No city shown in the sidebar.
NoCity == "<none>"

Min(a, b) == IF a <= b THEN a ELSE b

\* ---------------------------------------------------------------- inputs
\* Rows a small CSV file is made of: two buildings of equal height whose
\* names differ in case only, a name with trailing whitespace, a building
\* that is not completed, completion year 0, height 0 and a missing city.
RowKinds ==
    { [name |-> <<"W">>,      city |-> "Chicago", height |-> 200, completed |-> TRUE,  year |-> "2000"],
      [name |-> <<"w">>,      city |-> "Boston",  height |-> 200, completed |-> TRUE,  year |-> "0"],
      [name |-> <<"w", " ">>, city |-> "Chicago", height |-> 100, completed |-> TRUE,  year |-> "2000"],
      [name |-> <<"T">>,      city |-> "Boston",  height |-> 150, completed |-> FALSE, year |-> "0"],
      [name |-> <<"T">>,      city |-> "Chicago", height |-> 0,   completed |-> TRUE,  year |-> "2000"],
      [name |-> <<"W">>,      city |-> NaN,       height |-> 150, completed |-> TRUE,  year |-> "2000"] }

\* Row i of a long CSV file: heights ascend with the position in the file.
TallRow(i, c) ==
    [name |-> <<"T">>, city |-> c, height |-> 100 + 10 * i, completed |-> TRUE, year |-> "2000"]

SeqsUpTo(S, n) == UNION { [1..k -> S] : k \in 0..n }

\* Long CSV files: more rows than the default top_n, in either city.
TallFiles ==
    UNION { { [i \in 1..k |-> TallRow(i, cs[i])] : cs \in [1..k -> {"Boston", "Chicago"}] } :
            k \in (TopNDefault + 1)..(TopNDefault + MaxExtra) }

\* What skyscrapers.csv is when the script runs.
CsvFiles ==
    { [status |-> "ok", rows |-> f] : f \in SeqsUpTo(RowKinds, MaxRows) \cup TallFiles }
    \cup { [status |-> "absent", rows |-> <<>>], [status |-> "unreadable", rows |-> <<>>] }

\* Text the user can type in the sidebar's text box.
NameInputs == { <<" ">>, <<" ", "w">>, <<"T">>, <<"x">> }

Pages == {"Completed Skyscrapers", "Tallest Skyscrapers", "Map of Skyscrapers"}

SliderValues ==
    { SliderMin + k * SliderStep : k \in 0..MaxSteps } \cap SliderMin..SliderMax

\* ------------------------------------------------------------ pure helpers
\* pd.read_csv: the rows of the file, labelled 0, 1, 2, ...
read_csv(rows) ==
    [i \in 1..Len(rows) |->
        [idx |-> i - 1, name |-> rows[i].name, city |-> rows[i].city,
         height |-> rows[i].height, completed |-> rows[i].completed,
         year |-> rows[i].year]]

\* The load filter with >= for >: rows of height 0 stay.
load_filter_wrong(frame) ==
    SelectSeq(frame, LAMBDA r : r.height >= 0 /\ r.city # NaN)

\* df[(height > 0) & city.notna()]
load_filter(frame) ==
    SelectSeq(frame, LAMBDA r : r.height > 0 /\ r.city # NaN)

\* Every arrangement of the rows at positions S in which no row is ahead of
\* a row that must come first.
RECURSIVE Orders(_, _, _)
Orders(frame, S, descending) ==
    IF S = {} THEN { <<>> }
    ELSE LET first == { i \in S : \A j \in S :
                          IF descending THEN frame[i].height >= frame[j].height
                                        ELSE frame[i].height <= frame[j].height }
         IN  UNION { { <<frame[i]>> \o t : t \in Orders(frame, S \ {i}, descending) } :
                     i \in first }

\* The sort with ascending=True.
sort_values_ascending(frame) == Orders(frame, DOMAIN frame, FALSE)

\* df.sort_values(by=height, ascending=False) with the default kind,
\* quicksort, which is not a stable sort: rows of equal height come out in
\* any order.
sort_values(frame) == Orders(frame, DOMAIN frame, TRUE)

\* Series.replace(0, "Unknown") on the year column, as a new column.
replace_year(frame) ==
    [i \in DOMAIN frame |->
        IF frame[i].year = "0" THEN [frame[i] EXCEPT !.year = Unknown] ELSE frame[i]]

\* df[df[is completed] == True]
completed_only(frame) == SelectSeq(frame, LAMBDA r : r.completed = TRUE)

\* DataFrame.head(n) for positive n.
head(frame, n) == SubSeq(frame, 1, Min(n, Len(frame)))

\* get_tallest_skyscrapers taking one row too many.
get_tallest_off_by_one(frame, c, top_n) ==
    LET city_df == IF c = ALL_CITIES THEN head(frame, top_n + 1)
                   ELSE head(SelectSeq(frame, LAMBDA r : r.city = c), top_n + 1)
    IN  [frame |-> city_df, count |-> Len(city_df)]

\* get_tallest_skyscrapers(city, top_n); frame is the global df at the call.
get_tallest_skyscrapers(frame, c, top_n) ==
    LET city_df == IF c = ALL_CITIES THEN head(frame, top_n)
                   ELSE head(SelectSeq(frame, LAMBDA r : r.city = c), top_n)
    IN  [frame |-> city_df, count |-> Len(city_df)]

\* The column assignment writing into the frame the view was taken from.
parent_written_through(parent, view) ==
    [i \in DOMAIN parent |->
        IF \E j \in DOMAIN view : view[j].idx = parent[i].idx /\ parent[i].year = "0"
        THEN [parent[i] EXCEPT !.year = Unknown] ELSE parent[i]]

\* view[column] = new_column, where view came from df.head() or a mask of
\* df: the assignment rebinds the column of view and leaves the frame it
\* was taken from as it is.
parent_after_setitem(parent, view) == parent

\* str.lower() on the letters the model's names use.
LowerChar(ch) ==
    CASE ch = "W" -> "w"
      [] ch = "T" -> "t"
      [] ch = "X" -> "x"
      [] OTHER -> ch

lower(s) == [i \in DOMAIN s |-> LowerChar(s[i])]

RECURSIVE lstrip(_)
lstrip(s) == IF s # <<>> /\ Head(s) = " " THEN lstrip(Tail(s)) ELSE s

RECURSIVE rstrip(_)
rstrip(s) ==
    IF s # <<>> /\ s[Len(s)] = " " THEN rstrip(SubSeq(s, 1, Len(s) - 1)) ELSE s

\* str.strip()
strip(s) == rstrip(lstrip(s))

\* skyscraper_name_input.strip().lower()
standardized(input) == lower(strip(input))

RECURSIVE SumHeights(_)
SumHeights(frame) ==
    IF frame = <<>> THEN 0 ELSE Head(frame).height + SumHeights(Tail(frame))

\* The grouping with sum() for mean().
groupby_year_sum(frame) ==
    [y \in { frame[i].year : i \in DOMAIN frame } |->
        LET group == SelectSeq(frame, LAMBDA r : r.year = y)
        IN  [num |-> SumHeights(group), den |-> 1]]

\* frame.groupby(year)[height].mean(): each year of the frame's year column
\* mapped to the mean of its group, the fraction num / den.
groupby_year_mean(frame) ==
    [y \in { frame[i].year : i \in DOMAIN frame } |->
        LET group == SelectSeq(frame, LAMBDA r : r.year = y)
        IN  [num |-> SumHeights(group), den |-> Len(group)]]

\* Series.plot(kind='bar') takes the first tick position of its data: on a
\* Series with no entry it raises (IndexError; TypeError "no numeric data to
\* plot" in older pandas).
plot_bar_raises(series) == DOMAIN series = {}

\* frame[[name, height, year]].rename(...), Height formatted with
\* f"{x:.2f}".rstrip('0').rstrip('.'), which for a whole number of metres is
\* its decimal digits.
display_table(frame) ==
    [i \in DOMAIN frame |->
        [Name |-> frame[i].name, Height |-> ToString(frame[i].height),
         Year |-> frame[i].year]]

\* The map's filter with both ends of the range excluded.
range_filter_exclusive(frame, c, lo, hi) ==
    IF c = ALL_CITIES
    THEN SelectSeq(frame, LAMBDA r : r.height > lo /\ r.height < hi)
    ELSE SelectSeq(frame, LAMBDA r : r.city = c /\ r.height > lo /\ r.height < hi)

\* The map page's filter of df by city and height range.
range_filter(frame, c, lo, hi) ==
    IF c = ALL_CITIES
    THEN SelectSeq(frame, LAMBDA r : r.height >= lo /\ r.height <= hi)
    ELSE SelectSeq(frame, LAMBDA r : r.city = c /\ r.height >= lo /\ r.height <= hi)

\* This model's city names in lexicographic order.
CityOrder == <<"Boston", "Chicago">>

\* ['ALL CITIES'] + sorted({city for city in df[city]})
city_options_of(frame) ==
    <<ALL_CITIES>> \o
    SelectSeq(CityOrder, LAMBDA c : \E i \in DOMAIN frame : frame[i].city = c)

\* The name search taking the last matching row, iloc[-1].
search_last_match(frame, input) ==
    LET q == standardized(input)
        hits == SelectSeq(frame, LAMBDA r : lower(r.name) = q)
    IN  IF q = <<>> THEN [kind |-> "prompt", city |-> NoCity]
        ELSE IF hits # <<>> THEN [kind |-> "found", city |-> hits[Len(hits)].city]
        ELSE [kind |-> "notfound", city |-> NoCity]

\* The sidebar's name search: what it writes for the text typed.
search(frame, input) ==
    LET q == standardized(input)
        hits == SelectSeq(frame, LAMBDA r : lower(r.name) = q)
    IN  IF q = <<>> THEN [kind |-> "prompt", city |-> NoCity]
        ELSE IF hits # <<>> THEN [kind |-> "found", city |-> hits[1].city]
        ELSE [kind |-> "notfound", city |-> NoCity]

\* ------------------------------------------------------------------ state
VARIABLES
    csv,                      \* skyscrapers.csv
    pc,                       \* where the script is
    defined,                  \* whether the name df is bound
    df,
    completed_df,
    page, city, skyscraper_name_input,
    sidebar_text,             \* what the name search wrote
    filtered_df, display_df, avg_height,
    top_skyscrapers_default, skyscraper_count_default,
    top_20_skyscrapers, skyscraper_count_20,
    announced_default, announced_20,   \* the counts st.write showed
    display_top_skyscrapers, display_top_20_skyscrapers,
    height_range, map_filtered_df,
    error,                    \* the exception that ended the run
    stdout

dataVars == <<defined, df, completed_df>>
sidebarVars == <<page, city, skyscraper_name_input, sidebar_text>>
completedVars == <<filtered_df, display_df, avg_height>>
top5CallVars == <<top_skyscrapers_default, skyscraper_count_default, announced_default>>
top20CallVars == <<top_20_skyscrapers, skyscraper_count_20, announced_20>>
mapVars == <<height_range, map_filtered_df>>

vars == <<csv, pc, defined, df, completed_df, page, city, skyscraper_name_input,
          sidebar_text, filtered_df, display_df, avg_height,
          top_skyscrapers_default, skyscraper_count_default,
          top_20_skyscrapers, skyscraper_count_20, announced_default, announced_20,
          display_top_skyscrapers, display_top_20_skyscrapers,
          height_range, map_filtered_df, error, stdout>>

\* The script's namespace before its first statement.
Fresh ==
    /\ pc = "load"
    /\ defined = FALSE
    /\ df = <<>>
    /\ completed_df = <<>>
    /\ page = "Completed Skyscrapers"
    /\ city = ALL_CITIES
    /\ skyscraper_name_input = <<>>
    /\ sidebar_text = [kind |-> "none", city |-> NoCity]
    /\ filtered_df = <<>>
    /\ display_df = <<>>
    /\ avg_height = <<>>
    /\ top_skyscrapers_default = <<>>
    /\ skyscraper_count_default = 0
    /\ top_20_skyscrapers = <<>>
    /\ skyscraper_count_20 = 0
    /\ announced_default = 0
    /\ announced_20 = 0
    /\ display_top_skyscrapers = <<>>
    /\ display_top_20_skyscrapers = <<>>
    /\ height_range = <<SliderMin, SliderMin>>
    /\ map_filtered_df = <<>>
    /\ error = "none"
    /\ stdout = <<>>

Init ==
    /\ csv \in CsvFiles
    /\ Fresh

\* ---------------------------------------------------------------- actions
\* try: df = pd.read_csv(...)  except FileNotFoundError: print(...)
Load ==
    /\ pc = "load"
    /\ \/ /\ csv.status = "ok"
          /\ df' = read_csv(csv.rows)
          /\ defined' = TRUE
          /\ pc' = "prepare"
          /\ UNCHANGED <<error, stdout>>
       \/ /\ csv.status = "absent"
          /\ stdout' = Append(stdout, "File not found.")
          /\ pc' = "prepare"
          /\ UNCHANGED <<df, defined, error>>
       \/ /\ csv.status = "unreadable"
          /\ error' = "PermissionError"
          /\ pc' = "crashed"
          /\ UNCHANGED <<df, defined, stdout>>
    /\ UNCHANGED <<csv, completed_df, sidebarVars, completedVars, top5CallVars,
                   top20CallVars, display_top_skyscrapers, display_top_20_skyscrapers,
                   mapVars>>

\* The load filter, the sort, completed_df and its year replacement.
Prepare ==
    /\ pc = "prepare"
    /\ \/ /\ ~defined
          /\ error' = "NameError"
          /\ pc' = "crashed"
          /\ UNCHANGED <<df, completed_df>>
       \/ /\ defined
          /\ \E sorted \in sort_values(load_filter(df)) :
                /\ df' = sorted
                /\ completed_df' = replace_year(completed_only(sorted))
          /\ pc' = "sidebar"
          /\ UNCHANGED error
    /\ UNCHANGED <<csv, defined, sidebarVars, completedVars, top5CallVars,
                   top20CallVars, display_top_skyscrapers, display_top_20_skyscrapers,
                   mapVars, stdout>>

\* The sidebar: page, city, the name typed and the name search.
Sidebar ==
    /\ pc = "sidebar"
    /\ \E p \in Pages, k \in DOMAIN city_options_of(df), input \in NameInputs :
          /\ page' = p
          /\ city' = city_options_of(df)[k]
          /\ skyscraper_name_input' = input
          /\ sidebar_text' = search(df, input)
    /\ pc' = "page"
    /\ UNCHANGED <<csv, dataVars, completedVars, top5CallVars, top20CallVars,
                   display_top_skyscrapers, display_top_20_skyscrapers, mapVars,
                   error, stdout>>

\* PAGE ONE: the table and the bar chart of completed skyscrapers.
CompletedPage ==
    /\ pc = "page"
    /\ page = "Completed Skyscrapers"
    /\ LET f == IF city = ALL_CITIES THEN completed_df
                ELSE SelectSeq(completed_df, LAMBDA r : r.city = city)
           avg == groupby_year_mean(f)
       IN  /\ filtered_df' = f
           /\ display_df' = display_table(f)
           /\ avg_height' = avg
           /\ \/ /\ plot_bar_raises(avg)
                 /\ error' \in {"IndexError", "TypeError"}
                 /\ pc' = "crashed"
              \/ /\ ~plot_bar_raises(avg)
                 /\ pc' = "done"
                 /\ UNCHANGED error
    /\ UNCHANGED <<csv, dataVars, sidebarVars, top5CallVars, top20CallVars,
                   display_top_skyscrapers, display_top_20_skyscrapers, mapVars,
                   stdout>>

\* PAGE TWO: the first call, with the default top_n, and its announcement.
TallestCallDefault ==
    /\ pc = "page"
    /\ page = "Tallest Skyscrapers"
    /\ LET res == get_tallest_skyscrapers(df, city, TopNDefault)
       IN  /\ top_skyscrapers_default' = res.frame
           /\ skyscraper_count_default' = res.count
           /\ announced_default' = res.count
    /\ pc' = "show_default"
    /\ UNCHANGED <<csv, dataVars, sidebarVars, completedVars, top20CallVars,
                   display_top_skyscrapers, display_top_20_skyscrapers, mapVars,
                   error, stdout>>

\* The year replacement on the returned frame, the table and the chart.
TallestShowDefault ==
    /\ pc = "show_default"
    /\ LET shown == replace_year(top_skyscrapers_default)
       IN  /\ df' = parent_after_setitem(df, top_skyscrapers_default)
           /\ top_skyscrapers_default' = shown
           /\ display_top_skyscrapers' = display_table(shown)
    /\ pc' = "call_20"
    /\ UNCHANGED <<csv, defined, completed_df, sidebarVars, completedVars,
                   skyscraper_count_default, announced_default, top20CallVars,
                   display_top_20_skyscrapers, mapVars, error, stdout>>

\* The second call, with top_n=20, and the announcement above its table.
TallestCall20 ==
    /\ pc = "call_20"
    /\ LET res == get_tallest_skyscrapers(df, city, TopNSecond)
       IN  /\ top_20_skyscrapers' = res.frame
           /\ skyscraper_count_20' = res.count
           /\ announced_20' = skyscraper_count_default
    /\ pc' = "show_20"
    /\ UNCHANGED <<csv, dataVars, sidebarVars, completedVars, top5CallVars,
                   display_top_skyscrapers, display_top_20_skyscrapers, mapVars,
                   error, stdout>>

TallestShow20 ==
    /\ pc = "show_20"
    /\ LET shown == replace_year(top_20_skyscrapers)
       IN  /\ df' = parent_after_setitem(df, top_20_skyscrapers)
           /\ top_20_skyscrapers' = shown
           /\ display_top_20_skyscrapers' = display_table(shown)
    /\ pc' = "done"
    /\ UNCHANGED <<csv, defined, completed_df, sidebarVars, completedVars,
                   top5CallVars, skyscraper_count_20, announced_20,
                   display_top_skyscrapers, mapVars, error, stdout>>

\* PAGE THREE: the slider and the map's filter.
MapPage ==
    /\ pc = "page"
    /\ page = "Map of Skyscrapers"
    /\ \E lo \in SliderValues, hi \in SliderValues :
          /\ lo <= hi
          /\ height_range' = <<lo, hi>>
          /\ map_filtered_df' = range_filter(df, city, lo, hi)
    /\ pc' = "done"
    /\ UNCHANGED <<csv, dataVars, sidebarVars, completedVars, top5CallVars,
                   top20CallVars, display_top_skyscrapers, display_top_20_skyscrapers,
                   error, stdout>>

\* A user interaction: the script runs again from its first statement.
Rerun ==
    /\ pc \in {"done", "crashed"}
    /\ pc' = "load"
    /\ defined' = FALSE
    /\ df' = <<>>
    /\ completed_df' = <<>>
    /\ page' = "Completed Skyscrapers"
    /\ city' = ALL_CITIES
    /\ skyscraper_name_input' = <<>>
    /\ sidebar_text' = [kind |-> "none", city |-> NoCity]
    /\ filtered_df' = <<>>
    /\ display_df' = <<>>
    /\ avg_height' = <<>>
    /\ top_skyscrapers_default' = <<>>
    /\ skyscraper_count_default' = 0
    /\ top_20_skyscrapers' = <<>>
    /\ skyscraper_count_20' = 0
    /\ announced_default' = 0
    /\ announced_20' = 0
    /\ display_top_skyscrapers' = <<>>
    /\ display_top_20_skyscrapers' = <<>>
    /\ height_range' = <<SliderMin, SliderMin>>
    /\ map_filtered_df' = <<>>
    /\ error' = "none"
    /\ stdout' = <<>>
    /\ UNCHANGED csv

Next ==
    \/ Load
    \/ Prepare
    \/ Sidebar
    \/ CompletedPage
    \/ TallestCallDefault
    \/ TallestShowDefault
    \/ TallestCall20
    \/ TallestShow20
    \/ MapPage
    \/ Rerun

Spec == Init /\ [][Next]_vars

\* ----------------------------------------------------------------- claims
\* The load filter, the sort and completed_df have run in this script run.
StoreBuilt == defined /\ pc \notin {"load", "prepare"}

\* The rows of skyscrapers.csv as read_csv labels them.
FileRows == read_csv(csv.rows)

Selected(r, c) == c = ALL_CITIES \/ r.city = c

\* result is the first min(n, m) rows of df restricted to selection c: its
\* i-th row is the i-th row of df that the selection matches.
IsTopN(result, c, n) ==
    LET m == Cardinality({ p \in DOMAIN df : Selected(df[p], c) })
        k == Min(n, m)
    IN  /\ Len(result.frame) = k
        /\ result.count = Len(result.frame)
        /\ \A i \in 1..k : \E p \in DOMAIN df :
              /\ df[p] = result.frame[i]
              /\ Selected(df[p], c)
              /\ Cardinality({ q \in 1..p : Selected(df[q], c) }) = i
        /\ \A i, j \in 1..k : i < j => result.frame[i].height >= result.frame[j].height

\* C1: for every city selection and every positive n, get_tallest_skyscrapers
\* returns the first min(n, m) rows of the height-descending store restricted
\* to the rows the selection matches (all rows, completed or not, for
\* "ALL CITIES"), with count equal to the number of rows returned; the page's
\* two calls, with n = 5 and n = 20, return exactly that.  (The first conjunct
\* is evaluated where the store has just been built; no later step changes
\* df.)
C1_TopNTallest ==
    /\ (StoreBuilt /\ pc = "sidebar") =>
          \A c \in {ALL_CITIES, "Boston", "Chicago"}, n \in 1..MaxTopN :
              IsTopN(get_tallest_skyscrapers(df, c, n), c, n)
    /\ (StoreBuilt /\ pc = "show_default") =>
          IsTopN([frame |-> top_skyscrapers_default,
                  count |-> skyscraper_count_default], city, TopNDefault)
    /\ (StoreBuilt /\ pc = "show_20") =>
          IsTopN([frame |-> top_20_skyscrapers,
                  count |-> skyscraper_count_20], city, TopNSecond)

\* A city with more rows than the default top_n and fewer than 20, in a store
\* that also holds another city: the first call truncates, the second does not.
C1_Witness ==
    /\ pc = "show_20"
    /\ city = "Chicago"
    /\ skyscraper_count_default = TopNDefault
    /\ skyscraper_count_20 = TopNDefault + 1
    /\ Len(df) = TopNDefault + 2

ValidRow(r) == r.height > 0 /\ r.city # NaN

AllValid(frame) == \A i \in DOMAIN frame : ValidRow(frame[i])

\* The labels of the file's rows with height <= 0 or without a city.
DroppedLabels ==
    LET rows == FileRows IN { rows[p].idx : p \in { q \in DOMAIN rows : ~ValidRow(rows[q]) } }

\* No row of frame is the file's row at a position the load filter drops.
NoDroppedRow(frame, dropped) == \A i \in DOMAIN frame : frame[i].idx \notin dropped

\* C2: once the store is loaded, every row of the store and of every view and
\* query result has height > 0 and a city, and no row of the file with
\* height <= 0 or without a city is among them.
C2_LoadInvariant ==
    StoreBuilt =>
        /\ LET dropped == DroppedLabels
           IN  \A frame \in {df, completed_df, filtered_df, top_skyscrapers_default,
                             top_20_skyscrapers, map_filtered_df} :
                  AllValid(frame) /\ NoDroppedRow(frame, dropped)
        /\ sidebar_text.kind = "found" =>
              /\ sidebar_text.city # NaN
              /\ \E i \in DOMAIN df : df[i].city = sidebar_text.city

\* A file with a row of height 0 and a row without a city, after a page of a
\* non-empty store has been shown.
C2_Witness ==
    /\ pc = "done"
    /\ df # <<>>
    /\ \E p \in DOMAIN csv.rows : csv.rows[p].height <= 0
    /\ \E p \in DOMAIN csv.rows : csv.rows[p].city = NaN

\* C3: no step of the sidebar or of a page changes the store: the name
\* search, the completed view, both top-n views with their year replacement
\* and the map filter leave every row of df as it was.
C3_StoreImmutable ==
    [][(pc \in {"sidebar", "page", "show_default", "call_20", "show_20"}) => (df' = df)]_vars

\* The top-5 view shows "Unknown" for a row whose year in the store is 0.
C3_Witness ==
    /\ pc = "done"
    /\ page = "Tallest Skyscrapers"
    /\ \E i \in DOMAIN top_skyscrapers_default, p \in DOMAIN df :
          /\ top_skyscrapers_default[i].idx = df[p].idx
          /\ top_skyscrapers_default[i].year = Unknown
          /\ df[p].year = "0"

\* C4: when the file is absent or unreadable the run ends at the load with a
\* reported error, and no later step runs.
C4_LoadFailsFast ==
    (csv.status # "ok" /\ pc # "load") =>
        /\ pc = "crashed"
        /\ error \in {"FileNotFoundError", "PermissionError"}

\* The year a row has in the store.
StoreYear(r) == df[CHOOSE p \in DOMAIN df : df[p].idx = r.idx].year

Displayed(y) == IF y = "0" THEN Unknown ELSE y

RECURSIVE TotalHeight(_)
TotalHeight(S) ==
    IF S = {} THEN 0
    ELSE LET r == CHOOSE x \in S : TRUE IN r.height + TotalHeight(S \ {r})

\* mean is the arithmetic mean of the heights of the non-empty set S of rows.
IsMeanOf(mean, S) ==
    /\ S # {}
    /\ mean.den > 0
    /\ mean.num * Cardinality(S) = mean.den * TotalHeight(S)

\* avg_height maps each key Key(r) of a row of the completed page's input to
\* the mean height of the rows with that key, and has no other entry.
AveragesKeyedBy(Key(_)) ==
    LET rows == { filtered_df[i] : i \in DOMAIN filtered_df }
    IN  /\ DOMAIN avg_height = { Key(r) : r \in rows }
        /\ \A y \in DOMAIN avg_height :
              IsMeanOf(avg_height[y], { r \in rows : Key(r) = y })

CompletedPageRan ==
    StoreBuilt /\ page = "Completed Skyscrapers" /\ pc \in {"done", "crashed"}

\* C5 as stated: the averages are keyed by the raw completion year, a row
\* with raw year 0 in the group keyed 0 and never in one keyed "Unknown".
C5_KeyedByRawYear ==
    CompletedPageRan =>
        AveragesKeyedBy(LAMBDA r : StoreYear(r)) /\ Unknown \notin DOMAIN avg_height

\* C5 amended: the averages are keyed by the year as the completed view holds
\* it, after 0 was replaced: rows with raw year 0 are in the group keyed
\* "Unknown" and there is no group keyed 0; each key that occurs maps to the
\* arithmetic mean of its rows' heights and no other key has an entry.
C5_KeyedByViewYear ==
    CompletedPageRan =>
        /\ AveragesKeyedBy(LAMBDA r : Displayed(StoreYear(r)))
        /\ "0" \notin DOMAIN avg_height

\* Averages over a group of two rows of different heights and over a row
\* whose raw year is 0.
C5_Witness ==
    /\ CompletedPageRan
    /\ pc = "done"
    /\ Unknown \in DOMAIN avg_height
    /\ \E i, j \in DOMAIN filtered_df :
          /\ filtered_df[i].year = filtered_df[j].year
          /\ filtered_df[i].height # filtered_df[j].height

SearchRan == StoreBuilt /\ pc # "sidebar"

Least(S) == CHOOSE i \in S : \A j \in S : i <= j

\* What the sidebar wrote is what a search with the positions hits of the
\* matching rows of df writes.
WroteFirstOf(hits) ==
    IF hits # {}
    THEN sidebar_text.kind = "found" /\ sidebar_text.city = df[Least(hits)].city
    ELSE sidebar_text.kind = "notfound"

\* C6 as stated: query and name are compared ignoring case and leading and
\* trailing whitespace; the city of the first matching row is returned if a
\* row matches, else not-found.  (Stated for a query that is not blank.)
C6_TrimmedMatch ==
    (SearchRan /\ strip(skyscraper_name_input) # <<>>) =>
        WroteFirstOf({ i \in DOMAIN df :
            lower(strip(df[i].name)) = lower(strip(skyscraper_name_input)) })

\* C6 amended: the query is trimmed and lower-cased and compared with each
\* row's lower-cased name as it is stored (not trimmed); a query that is not
\* blank gets the city of the first matching row in store order, or
\* not-found; a blank query gets the prompt.
C6_FirstMatch ==
    SearchRan =>
        IF strip(skyscraper_name_input) = <<>>
        THEN sidebar_text.kind = "prompt"
        ELSE WroteFirstOf({ i \in DOMAIN df :
                lower(df[i].name) = lower(strip(skyscraper_name_input)) })

\* Two rows in different cities match the query typed with a leading space.
C6_Witness ==
    /\ SearchRan
    /\ sidebar_text.kind = "found"
    /\ skyscraper_name_input # strip(skyscraper_name_input)
    /\ \E i, j \in DOMAIN df :
          /\ i < j
          /\ lower(df[i].name) = standardized(skyscraper_name_input)
          /\ lower(df[j].name) = standardized(skyscraper_name_input)
          /\ df[i].city # df[j].city

MapPageRan == StoreBuilt /\ page = "Map of Skyscrapers" /\ pc = "done"

\* C7: the map filter returns exactly the rows of the store with
\* min <= height <= max, both ends included, in the selected city or in any
\* city for "ALL CITIES": none outside, none missing, none twice.
C7_RangeAndCity ==
    MapPageRan =>
        /\ \A p \in DOMAIN df :
              (/\ height_range[1] <= df[p].height
               /\ df[p].height <= height_range[2]
               /\ Selected(df[p], city))
              <=> \E i \in DOMAIN map_filtered_df : map_filtered_df[i] = df[p]
        /\ \A i \in DOMAIN map_filtered_df : \E p \in DOMAIN df : df[p] = map_filtered_df[i]
        /\ \A i, j \in DOMAIN map_filtered_df :
              map_filtered_df[i] = map_filtered_df[j] => i = j

\* A row at each end of the range is on the map and a row of another city is
\* not.
C7_Witness ==
    /\ MapPageRan
    /\ city # ALL_CITIES
    /\ height_range[1] < height_range[2]
    /\ \E i \in DOMAIN map_filtered_df : map_filtered_df[i].height = height_range[1]
    /\ \E i \in DOMAIN map_filtered_df : map_filtered_df[i].height = height_range[2]
    /\ Len(map_filtered_df) < Len(df)

\* C8 as stated: the sorted store is a stable order: a row before another is
\* taller, or as tall and earlier in the file.
C8_StableOrder ==
    StoreBuilt =>
        \A i, j \in DOMAIN df : i < j =>
            \/ df[i].height > df[j].height
            \/ df[i].height = df[j].height /\ df[i].idx < df[j].idx

\* C8 amended: the sorted store holds each row the load filter keeps once, as
\* it is in the file, and a row before another is at least as tall; the
\* order of rows of equal height is not determined.
C8_NonIncreasing ==
    StoreBuilt =>
        LET rows == FileRows
        IN  /\ \A i, j \in DOMAIN df : i < j => df[i].height >= df[j].height
            /\ \A i, j \in DOMAIN df : df[i].idx = df[j].idx => i = j
            /\ \A i \in DOMAIN df : df[i] = rows[df[i].idx + 1]
            /\ \A p \in DOMAIN rows :
                  ValidRow(rows[p]) => \E i \in DOMAIN df : df[i] = rows[p]

\* The sort moved a taller row ahead of a row that is earlier in the file, and
\* put two rows of equal height in the reverse of their order in the file.
C8_Witness ==
    /\ StoreBuilt
    /\ \E i, j \in DOMAIN df :
          i < j /\ df[i].height > df[j].height /\ df[i].idx > df[j].idx
    /\ \E i, j \in DOMAIN df :
          i < j /\ df[i].height = df[j].height /\ df[i].idx > df[j].idx

\* C9: once a non-empty store is built no selection ends the run with an
\* exception: an empty completed view (a city of the list without a completed
\* building), an empty map and a name nobody has are results, not errors.
C9_EmptyResultsAreNotErrors ==
    (StoreBuilt /\ df # <<>>) => (pc # "crashed" /\ error = "none")

\* C10: on the Tallest Skyscrapers page each announced count is the number of
\* rows of the table below it.
C10_AnnouncedCounts ==
    (StoreBuilt /\ page = "Tallest Skyscrapers" /\ pc = "done") =>
        /\ announced_default = Len(display_top_skyscrapers)
        /\ announced_20 = Len(display_top_20_skyscrapers)

====
